---- MODULE Spec2Model ----
(***************************************************************************)
(* DesignSystemAdapter (design_system_adapter.py): dominant colour         *)
(* extraction, palette generation and WCAG contrast analysis.              *)
(*                                                                         *)
(* Numbers.  Python floats are modelled as exact rationals [n, d] in the   *)
(* HSV transforms (colorsys) and as fixed point in the luminance formula:  *)
(* a linearised channel and a luminance are integers in units of 10^-7.    *)
(* The centroids the model draws are colours for which IEEE double         *)
(* evaluation of the source yields the same truncated channels, ratings    *)
(* and rounded ratios as this arithmetic.                                  *)
(*                                                                         *)
(* Strings.  A hex colour is the sequence of its characters; dictionaries  *)
(* are sequences of <<key, value>> pairs in insertion order.               *)
(***************************************************************************)
EXTENDS Integers, Sequences, FiniteSets, TLC

VARIABLES dominant_colors, color_palette, ret, probe

vars == <<dominant_colors, color_palette, ret, probe>>

(***************************************************************************)
(* Bounds of the model and constants of the program.                       *)
(***************************************************************************)
\* explicit n_colors arguments range over 0..MaxNColors
MaxNColors == 2
\* number of pixel samples handed to KMeans (stands for the 100 x 100 grid)
NSamples == 2
\* def extract_dominant_colors(self, n_colors=5)
DefaultNColors == 5

\* a local of the source: the value is computed once, then named in Body
Let(value, Body(_)) == CHOOSE r \in { Body(x) : x \in {value} } : TRUE

Min(a, b) == IF a < b THEN a ELSE b
Abs(x) == IF x < 0 THEN -x ELSE x

(***************************************************************************)
(* Rational arithmetic.                                                    *)
(***************************************************************************)
GCD[a \in Nat, b \in Nat] == IF b = 0 THEN a ELSE GCD[b, a % b]

Rats == [n : Int, d : Int]

Rat[n \in Int, d \in Int] ==
    LET g == GCD[Abs(n), Abs(d)]
        s == IF d < 0 THEN -1 ELSE 1
    IN  [n |-> (s * n) \div g, d |-> (s * d) \div g]

RInt(k) == [n |-> k, d |-> 1]
RAdd[x \in Rats, y \in Rats] == Rat[x.n * y.d + y.n * x.d, x.d * y.d]
RSub[x \in Rats, y \in Rats] == Rat[x.n * y.d - y.n * x.d, x.d * y.d]
RMul[x \in Rats, y \in Rats] == Rat[x.n * y.n, x.d * y.d]
RDiv[x \in Rats, y \in Rats] == Rat[x.n * y.d, x.d * y.n]
RLess[x \in Rats, y \in Rats] == x.n * y.d < y.n * x.d
REq[x \in Rats, y \in Rats] == x.n * y.d = y.n * x.d
RMax[x \in Rats, y \in Rats] == IF RLess[x, y] THEN y ELSE x
RMin[x \in Rats, y \in Rats] == IF RLess[y, x] THEN y ELSE x
\* int(x): truncation toward zero
RTrunc[x \in Rats] == IF x.n >= 0 THEN x.n \div x.d ELSE -((-x.n) \div x.d)
\* x % 1.0 (Python: the result has the sign of the divisor)
RMod1[x \in Rats] == Rat[x.n % x.d, x.d]

(***************************************************************************)
(* colorsys.rgb_to_hsv / colorsys.hsv_to_rgb, as called by the adapter.    *)
(***************************************************************************)
rgb_to_hsv[r \in Rats, g \in Rats, b \in Rats] ==
    LET maxc == RMax[r, RMax[g, b]]
        minc == RMin[r, RMin[g, b]]
        rangec == RSub[maxc, minc]
        v == maxc
    IN  IF REq[minc, maxc]
        THEN [h |-> RInt(0), s |-> RInt(0), v |-> v]
        ELSE LET s == RDiv[rangec, maxc]
                 rc == RDiv[RSub[maxc, r], rangec]
                 gc == RDiv[RSub[maxc, g], rangec]
                 bc == RDiv[RSub[maxc, b], rangec]
                 h0 == IF REq[r, maxc] THEN RSub[bc, gc]
                       ELSE IF REq[g, maxc] THEN RAdd[RInt(2), RSub[rc, bc]]
                       ELSE RAdd[RInt(4), RSub[gc, rc]]
             IN  [h |-> RMod1[RDiv[h0, RInt(6)]], s |-> s, v |-> v]

hsv_to_rgb[h \in Rats, s \in Rats, v \in Rats] ==
    IF REq[s, RInt(0)] THEN <<v, v, v>>
    ELSE LET h6 == RMul[h, RInt(6)]
             i0 == RTrunc[h6]
             f == RSub[h6, RInt(i0)]
             p == RMul[v, RSub[RInt(1), s]]
             q == RMul[v, RSub[RInt(1), RMul[s, f]]]
             t == RMul[v, RSub[RInt(1), RMul[s, RSub[RInt(1), f]]]]
             i == i0 % 6
         IN  CASE i = 0 -> <<v, t, p>>
               [] i = 1 -> <<q, v, p>>
               [] i = 2 -> <<p, v, t>>
               [] i = 3 -> <<p, q, v>>
               [] i = 4 -> <<t, p, v>>
               [] i = 5 -> <<v, p, q>>

\* [int(c * 255) for c in rgb]
ScaleToInt(rgb) ==
    Let(rgb, LAMBDA c : [k \in 1..3 |-> RTrunc[RMul[c[k], RInt(255)]]])

\* colorsys.rgb_to_hsv(c[0]/255, c[1]/255, c[2]/255)
HsvOf(rgb_color) ==
    Let(rgb_color, LAMBDA c : rgb_to_hsv[Rat[c[1], 255], Rat[c[2], 255], Rat[c[3], 255]])

(***************************************************************************)
(* Hex strings.                                                            *)
(***************************************************************************)
HexDigits == <<"0", "1", "2", "3", "4", "5", "6", "7",
               "8", "9", "a", "b", "c", "d", "e", "f">>

\* format(n, "x") for n >= 0
HexOf[n \in Nat] ==
    IF n < 16 THEN <<HexDigits[n + 1]>>
    ELSE HexOf[n \div 16] \o <<HexDigits[(n % 16) + 1]>>

\* f"{n:02x}": sign, then digits, zero-padded to a total width of 2
Format02x[n \in Int] ==
    LET digits == HexOf[Abs(n)]
        body == IF n < 0 THEN <<"-">> \o digits ELSE digits
    IN  IF Len(body) >= 2 THEN body ELSE <<"0">> \o body

_rgb_to_hex(rgb_color) ==
    Let(rgb_color, LAMBDA c :
        <<"#">> \o Format02x[c[1]] \o Format02x[c[2]] \o Format02x[c[3]])

HexValue(ch) == (CHOOSE k \in 1..16 : HexDigits[k] = ch) - 1

\* int(s, 16) of a two-character slice
ParseHex2(s) == Let(s, LAMBDA t : 16 * HexValue(t[1]) + HexValue(t[2]))

(***************************************************************************)
(* Dictionaries in insertion order.                                        *)
(***************************************************************************)
DictKeys(d) == Let(d, LAMBDA e : [k \in 1..Len(e) |-> e[k][1]])
DictHas(d, key) == Let(d, LAMBDA e : \E k \in 1..Len(e) : e[k][1] = key)
DictGet(d, key) == Let(d, LAMBDA e : e[CHOOSE k \in 1..Len(e) : e[k][1] = key][2])
\* d[key] = value: replaces in place, or appends a new key
DictSet(d, key, value) ==
    Let(<<d, key, value>>, LAMBDA a :
        IF \E k \in 1..Len(a[1]) : a[1][k][1] = a[2]
        THEN [k \in 1..Len(a[1]) |->
                 IF a[1][k][1] = a[2] THEN <<a[2], a[3]>> ELSE a[1][k]]
        ELSE Append(a[1], <<a[2], a[3]>>))

(***************************************************************************)
(* Palette generation.                                                     *)
(***************************************************************************)
\* v + factor without the clamp of line 100
_adjust_brightness_unclamped(rgb_color, factor) ==
    Let(HsvOf(rgb_color), LAMBDA hsv :
        ScaleToInt(hsv_to_rgb[hsv.h, hsv.s, RAdd[hsv.v, factor]]))

_adjust_brightness(rgb_color, factor) ==
    Let(HsvOf(rgb_color), LAMBDA hsv :
        ScaleToInt(hsv_to_rgb[hsv.h, hsv.s,
                              RMax[RInt(0), RMin[RInt(1), RAdd[hsv.v, factor]]]]))

\* colorsys.hsv_to_rgb((h + offset) % 1.0, s, v), scaled to integers
ShiftHue(rgb_color, offset) ==
    Let(HsvOf(rgb_color), LAMBDA hsv :
        ScaleToInt(hsv_to_rgb[RMod1[RAdd[hsv.h, offset]], hsv.s, hsv.v]))

\* palette[f"additional-{i}"] = hex of the i-th colour of the slice, i = 1..upto
AddSlice(extra, palette) ==
    LET F[i \in 0..Len(extra)] ==
            IF i = 0 THEN palette
            ELSE DictSet(F[i - 1], "additional-" \o ToString(i), _rgb_to_hex(extra[i]))
    IN  F[Len(extra)]

\* enumerate(self.dominant_colors[1:5], 1): one colour too many
AdditionalColorsUpTo4(dominant, palette) ==
    Let(<<dominant, palette>>, LAMBDA a :
        IF Len(a[1]) > 1
        THEN AddSlice(SubSeq(a[1], 2, Min(5, Len(a[1]))), a[2])
        ELSE a[2])

\* lines 91-93: for i, color in enumerate(self.dominant_colors[1:4], 1)
AdditionalColors(dominant, palette) ==
    Let(<<dominant, palette>>, LAMBDA a :
        IF Len(a[1]) > 1
        THEN AddSlice(SubSeq(a[1], 2, Min(4, Len(a[1]))), a[2])
        ELSE a[2])

\* lines 53-95: the body of generate_color_palette once dominant_colors is non-empty
PaletteFrom(dominant) ==
    Let(dominant, LAMBDA dom :
        LET primary_color == dom[1]
            complementary_color == ShiftHue(primary_color, Rat[1, 2])
            darker_primary == _adjust_brightness(primary_color, Rat[-3, 10])
            lighter_primary == _adjust_brightness(primary_color, Rat[3, 10])
            accent_color == ShiftHue(primary_color, Rat[1, 4])
            light_gray == <<240, 240, 240>>
            medium_gray == <<150, 150, 150>>
            dark_gray == <<50, 50, 50>>
        IN  AdditionalColors(dom,
                << <<"primary", _rgb_to_hex(primary_color)>>,
                   <<"primary-dark", _rgb_to_hex(darker_primary)>>,
                   <<"primary-light", _rgb_to_hex(lighter_primary)>>,
                   <<"secondary", _rgb_to_hex(complementary_color)>>,
                   <<"accent", _rgb_to_hex(accent_color)>>,
                   <<"gray-light", _rgb_to_hex(light_gray)>>,
                   <<"gray-medium", _rgb_to_hex(medium_gray)>>,
                   <<"gray-dark", _rgb_to_hex(dark_gray)>> >>))

(***************************************************************************)
(* WCAG luminance and contrast (nested in analyze_contrast).               *)
(***************************************************************************)
\* 10^7 * ((c/255 + 0.055) / 1.055) ** 2.4 for c = 11..255, to the nearest unit
GammaTable ==
    <<
       33465, 36765, 40247, 43914, 47770, 51815, 56054, 60488,
       65121, 69954, 74990, 80232, 85681, 91341, 97212, 103298,
       109601, 116122, 122865, 129830, 137021, 144438, 152085, 159963,
       168074, 176420, 185002, 193824, 202886, 212190, 221739, 231534,
       241576, 251869, 262412, 273209, 284260, 295568, 307134, 318960,
       331048, 343398, 356013, 368895, 382044, 395462, 409152, 423114,
       437350, 451862, 466651, 481718, 497066, 512695, 528606, 544803,
       561285, 578054, 595112, 612461, 630100, 648033, 666259, 684782,
       703601, 722719, 742136, 761854, 781874, 802198, 822827, 843762,
       865005, 886556, 908417, 930590, 953075, 975873, 998987, 1022417,
       1046165, 1070231, 1094617, 1119324, 1144354, 1169707, 1195384, 1221388,
       1247718, 1274377, 1301365, 1328683, 1356333, 1384316, 1412633, 1441285,
       1470273, 1499598, 1529262, 1559265, 1589608, 1620294, 1651322, 1682694,
       1714411, 1746474, 1778884, 1811642, 1844750, 1878208, 1912017, 1946178,
       1980693, 2015563, 2050787, 2086369, 2122308, 2158605, 2195262, 2232280,
       2269659, 2307400, 2345506, 2383976, 2422811, 2462013, 2501583, 2541521,
       2581829, 2622507, 2663556, 2704978, 2746773, 2788943, 2831487, 2874408,
       2917706, 2961383, 3005438, 3049873, 3094689, 3139887, 3185468, 3231432,
       3277781, 3324515, 3371636, 3419144, 3467041, 3515326, 3564001, 3613068,
       3662526, 3712377, 3762621, 3813260, 3864294, 3915725, 3967552, 4019778,
       4072402, 4125426, 4178851, 4232677, 4286905, 4341536, 4396572, 4452012,
       4507858, 4564110, 4620770, 4677838, 4735315, 4793202, 4851499, 4910208,
       4969330, 5028865, 5088813, 5149177, 5209956, 5271151, 5332764, 5394795,
       5457245, 5520114, 5583404, 5647115, 5711248, 5775804, 5840784, 5906188,
       5972018, 6038273, 6104956, 6172066, 6239604, 6307571, 6375969, 6444797,
       6514056, 6583748, 6653873, 6724432, 6795425, 6866853, 6938718, 7011019,
       7083758, 7156935, 7230551, 7304607, 7379104, 7454042, 7529422, 7605245,
       7681511, 7758222, 7835378, 7912979, 7991027, 8069523, 8148466, 8227858,
       8307699, 8387990, 8468732, 8549926, 8631572, 8713671, 8796224, 8879231,
       8962694, 9046612, 9130987, 9215819, 9301109, 9386857, 9473065, 9559734,
       9646862, 9734453, 9822506, 9911021, 10000000
    >>

\* c/255/12.92 if c/255 <= 0.03928 else ((c/255 + 0.055)/1.055) ** 2.4, in 10^-7
Linearize[c \in Nat] ==
    IF 100000 * c <= 3928 * 255
    THEN (c * 100000000 + 16473) \div 32946
    ELSE GammaTable[c - 10]

\* (w / 10000) * x without overflowing
Weighted[w \in Nat, x \in Nat] == w * (x \div 10000) + (w * (x % 10000)) \div 10000

get_luminance(hex_color) ==
    Let(hex_color, LAMBDA hex :
        LET r == Linearize[ParseHex2(SubSeq(hex, 2, 3))]
            g == Linearize[ParseHex2(SubSeq(hex, 4, 5))]
            b == Linearize[ParseHex2(SubSeq(hex, 6, 7))]
        IN  Weighted[2126, r] + Weighted[7152, g] + Weighted[722, b])

\* (l1 + 0.05) / (l2 + 0.05) whichever luminance is the larger
calculate_contrast_unordered(color1_hex, color2_hex) ==
    Let(<<get_luminance(color1_hex), get_luminance(color2_hex)>>, LAMBDA l :
        [num |-> l[1] + 500000, den |-> l[2] + 500000])

\* lines 161-175: the contrast ratio as the fraction num / den (both in 10^-7)
calculate_contrast(color1_hex, color2_hex) ==
    Let(<<get_luminance(color1_hex), get_luminance(color2_hex)>>, LAMBDA l :
        IF l[1] > l[2]
        THEN [num |-> l[1] + 500000, den |-> l[2] + 500000]
        ELSE [num |-> l[2] + 500000, den |-> l[1] + 500000])

\* round(contrast, 2) in hundredths, ties to even
Round2(contrast) ==
    Let(contrast, LAMBDA c :
        LET q == (100 * c.num) \div c.den
            r == (100 * c.num) % c.den
        IN  IF 2 * r < c.den THEN q
            ELSE IF 2 * r > c.den THEN q + 1
            ELSE IF q % 2 = 0 THEN q ELSE q + 1)

\* the rating taken from the rounded ratio
StatusOfRounded(contrast) ==
    Let(Round2(contrast), LAMBDA shown :
        IF shown >= 450
        THEN IF shown >= 700 THEN "Bom" ELSE "Aceitável"
        ELSE "Insuficiente")

\* lines 189-192: the rating, from the ratio as computed
StatusOf(contrast) ==
    Let(contrast, LAMBDA c :
        IF 10 * c.num >= 45 * c.den
        THEN IF c.num >= 7 * c.den THEN "Bom" ELSE "Aceitável"
        ELSE "Insuficiente")

\* [k for k, v in self.color_palette.items() if v == bg_color][0]
FirstKeyWithValue(palette, value) ==
    Let(<<palette, value>>, LAMBDA a :
        a[1][CHOOSE k \in 1..Len(a[1]) :
                /\ a[1][k][2] = a[2]
                /\ \A j \in 1..(k - 1) : a[1][j][2] # a[2]][1])

\* one pass of the inner loop, lines 184-197: <<key, entry>>
ContrastEntry(palette, text_color, bg_color) ==
    Let(calculate_contrast(text_color, bg_color), LAMBDA contrast :
        LET text_name == IF text_color = DictGet(palette, "gray-light")
                         THEN "texto-claro" ELSE "texto-escuro"
            bg_name == FirstKeyWithValue(palette, bg_color)
        IN  <<text_name \o " sobre " \o bg_name,
              [contraste |-> Round2(contrast), status |-> StatusOf(contrast)]>>)

\* lines 178-199: the report over text colours x background colours
ContrastResults(palette) ==
    Let(palette, LAMBDA pal :
        LET text_colors == <<DictGet(pal, "gray-light"), DictGet(pal, "gray-dark")>>
            background_colors == <<DictGet(pal, "primary"), DictGet(pal, "secondary"),
                                   DictGet(pal, "primary-light"),
                                   DictGet(pal, "primary-dark")>>
            \* step k = 4 * (t - 1) + b of the nested loops
            F[k \in 0..8] ==
                IF k = 0 THEN <<>>
                ELSE Let(ContrastEntry(pal, text_colors[((k - 1) \div 4) + 1],
                                       background_colors[((k - 1) % 4) + 1]),
                         LAMBDA e : DictSet(F[k - 1], e[1], e[2]))
        IN  F[8])

(***************************************************************************)
(* KMeans (sklearn), seen from extract_dominant_colors: the fitted model's *)
(* cluster_centers_ (real-valued, here in tenths of a channel unit) and    *)
(* labels_ (one cluster index per sample), or an exception.  fit rejects   *)
(* n_clusters < 1, and like any library call it can fail at run time.      *)
(***************************************************************************)
Centroids == << <<9, 1205, 1452>>, <<4, 2550, 7>>, <<3, 2, 9>> >>

\* the centre sequences the model draws: n centroids in turn, from any first one
CenterSequences(n) ==
    { [i \in 1..n |-> Centroids[((first + i - 2) % Len(Centroids)) + 1]] :
          first \in 1..Len(Centroids) }

\* labels_ as a multiset: np.bincount does not look at the order of the samples
LabelVectors(n) ==
    { l \in [1..NSamples -> 0..(n - 1)] :
          \A i \in 1..(NSamples - 1) : l[i] <= l[i + 1] }

KMeansRaises(error) ==
    [raised |-> TRUE, error |-> error, cluster_centers_ |-> <<>>, labels_ |-> <<>>]

KMeansOutcomes(n) ==
    IF n < 1 THEN { KMeansRaises("InvalidParameterError") }
    ELSE { KMeansRaises("MemoryError") } \cup
         { [raised |-> FALSE, error |-> "", cluster_centers_ |-> c, labels_ |-> l] :
               c \in CenterSequences(n), l \in LabelVectors(n) }

\* the argument of a method that does not reach KMeans
NoKMeans == KMeansRaises("not called")

(***************************************************************************)
(* extract_dominant_colors                                                 *)
(***************************************************************************)
SeqMax(s) == CHOOSE x \in { s[i] : i \in 1..Len(s) } : \A i \in 1..Len(s) : s[i] <= x

\* np.bincount(labels): occurrences of each value 0..max(labels)
bincount(labels) ==
    Let(labels, LAMBDA l :
        [j \in 1..(SeqMax(l) + 1) |-> Cardinality({ i \in 1..Len(l) : l[i] = j - 1 })])

\* zip(colors, counts); index is the cluster's place in the zip (not held by the code)
ZipColorsCounts(colors, counts) ==
    Let(<<colors, counts>>, LAMBDA a :
        [i \in 1..Min(Len(a[1]), Len(a[2])) |->
            [color |-> a[1][i], count |-> a[2][i], index |-> i]])

Reverse(s) == Let(s, LAMBDA t : [i \in 1..Len(t) |-> t[Len(t) + 1 - i]])

\* x after every element whose count is <= x.count
InsertAscending(sorted, x) ==
    Let(<<sorted, x>>, LAMBDA a :
        LET before == { i \in 1..Len(a[1]) : a[1][i].count <= a[2].count }
            k == Cardinality(before)
        IN  SubSeq(a[1], 1, k) \o <<a[2]>> \o SubSeq(a[1], k + 1, Len(a[1])))

\* x after every element whose count is >= x.count
InsertDescending(sorted, x) ==
    Let(<<sorted, x>>, LAMBDA a :
        LET before == { i \in 1..Len(a[1]) : a[1][i].count >= a[2].count }
            k == Cardinality(before)
        IN  SubSeq(a[1], 1, k) \o <<a[2]>> \o SubSeq(a[1], k + 1, Len(a[1])))

\* sort by count ascending, then reverse the list: equal counts end reversed
SortAscendingThenReverse(cwc) ==
    Let(cwc, LAMBDA c :
        LET F[i \in 0..Len(c)] ==
                IF i = 0 THEN <<>> ELSE InsertAscending(F[i - 1], c[i])
        IN  Reverse(F[Len(c)]))

\* colors_with_counts.sort(key=lambda x: x[1], reverse=True): stable
SortByCountDescending(cwc) ==
    Let(cwc, LAMBDA c :
        LET F[i \in 0..Len(c)] ==
                IF i = 0 THEN <<>> ELSE InsertDescending(F[i - 1], c[i])
        IN  F[Len(c)])

\* color.astype(int): truncation of each channel
AsTypeInt(color) == Let(color, LAMBDA c : [k \in 1..3 |-> c[k] \div 10])

NoValue == <<>>

\* what a call leaves: the object's fields, how the call ended, what it returned;
\* kmeans and colors_with_counts record the KMeans call and the sorted local list
Result(self, outcome, error, value, kmeans, colors_with_counts) ==
    [self |-> self, outcome |-> outcome, error |-> error, value |-> value,
     kmeans |-> kmeans, colors_with_counts |-> colors_with_counts]

\* a nested call that is skipped: nothing changes, nothing is raised
Skipped(self) == Result(self, "returned", "", NoValue, "not called", <<>>)

extract_dominant_colors(self, n_colors, km) ==
    IF km.raised
    THEN Result(self, "raised", km.error, NoValue, "raised", <<>>)
    ELSE Let(SortByCountDescending(
                 ZipColorsCounts(km.cluster_centers_, bincount(km.labels_))),
             LAMBDA colors_with_counts :
                 Let([i \in 1..Len(colors_with_counts) |->
                          AsTypeInt(colors_with_counts[i].color)],
                     LAMBDA dominant :
                         Result([self EXCEPT !.dominant_colors = dominant], "returned",
                                "", dominant, "fitted", colors_with_counts)))

(***************************************************************************)
(* generate_color_palette                                                  *)
(***************************************************************************)
\* lines 50-51: if not self.dominant_colors: self.extract_dominant_colors()
ExtractIfEmpty(self, km) ==
    IF self.dominant_colors = <<>>
    THEN extract_dominant_colors(self, DefaultNColors, km)
    ELSE Skipped(self)

\* lines 53-95 on the object e.self that the (possibly skipped) extraction left
BuildPalette(e) ==
    IF e.self.dominant_colors = <<>>
    THEN [e EXCEPT !.outcome = "raised", !.error = "IndexError", !.value = NoValue]
    ELSE Let(PaletteFrom(e.self.dominant_colors), LAMBDA palette :
             [e EXCEPT !.self = [e.self EXCEPT !.color_palette = palette],
                       !.value = palette])

\* generate_color_palette without the lazy extraction of lines 50-51
generate_color_palette_no_extract(self, km) == BuildPalette(Skipped(self))

\* generate_color_palette falling back to a neutral gray when extraction raises
generate_color_palette_recovering(self, km) ==
    Let(ExtractIfEmpty(self, km), LAMBDA e :
        IF e.outcome = "raised"
        THEN BuildPalette(Result([self EXCEPT !.dominant_colors = << <<150, 150, 150>> >>],
                                 "returned", "", NoValue, e.kmeans, <<>>))
        ELSE BuildPalette(e))

generate_color_palette(self, km) ==
    Let(ExtractIfEmpty(self, km), LAMBDA e :
        IF e.outcome = "raised" THEN e ELSE BuildPalette(e))

(***************************************************************************)
(* generate_scss_variables                                                 *)
(***************************************************************************)
ScssHeader == "// Design System Auto-Adaptativo - Cores geradas automaticamente\n\n"

\* one piece per string appended to scss_content
ScssContent(palette) ==
    Let(palette, LAMBDA pal :
        <<ScssHeader>> \o
        [k \in 1..Len(pal) |-> <<"$color-" \o pal[k][1], ": ", pal[k][2], ";\n">>])

\* lines 110-111 and 157-158: if not self.color_palette: self.generate_color_palette()
GenerateIfEmpty(self, km) ==
    IF self.color_palette = <<>>
    THEN generate_color_palette(self, km)
    ELSE Skipped(self)

generate_scss_variables(self, km) ==
    Let(GenerateIfEmpty(self, km), LAMBDA g :
        IF g.outcome = "raised" THEN g
        ELSE [g EXCEPT !.value = ScssContent(g.self.color_palette)])

(***************************************************************************)
(* analyze_contrast                                                        *)
(***************************************************************************)
\* the keys analyze_contrast subscripts the palette with (lines 179-181)
AnalyzedRoles ==
    <<"gray-light", "gray-dark", "primary", "secondary", "primary-light", "primary-dark">>

\* lines 160-199 on the object g.self that the (possibly skipped) generation left
Analyze(g) ==
    IF \E k \in 1..Len(AnalyzedRoles) : ~DictHas(g.self.color_palette, AnalyzedRoles[k])
    THEN [g EXCEPT !.outcome = "raised", !.error = "KeyError", !.value = NoValue]
    ELSE [g EXCEPT !.value = ContrastResults(g.self.color_palette)]

\* analyze_contrast without the lazy generation of lines 157-158
analyze_contrast_no_generate(self, km) == Analyze(Skipped(self))

analyze_contrast(self, km) ==
    Let(GenerateIfEmpty(self, km), LAMBDA g :
        IF g.outcome = "raised" THEN g ELSE Analyze(g))

(***************************************************************************)
(* The adapter as a state machine: one action per public method call.      *)
(***************************************************************************)
Self == [dominant_colors |-> dominant_colors, color_palette |-> color_palette]

\* the stored fields after the call, and what the caller observed of it
Call(op, r) ==
    /\ dominant_colors' = r.self.dominant_colors
    /\ color_palette' = r.self.color_palette
    /\ ret' = [op |-> op, outcome |-> r.outcome, error |-> r.error, value |-> r.value,
               kmeans |-> r.kmeans, colors_with_counts |-> r.colors_with_counts]
    /\ UNCHANGED probe

\* __init__: no dominant colours, no palette
Init ==
    /\ dominant_colors = <<>>
    /\ color_palette = <<>>
    /\ ret = [op |-> "__init__", outcome |-> "returned", error |-> "", value |-> NoValue,
              kmeans |-> "not called", colors_with_counts |-> <<>>]
    /\ probe = <<>>

\* the KMeans outcomes a call can meet: none when it does not reach KMeans
Reached(needed) == IF needed THEN KMeansOutcomes(DefaultNColors) ELSE {NoKMeans}

ExtractDominantColors ==
    \E n_colors \in 0..MaxNColors :
        \E km \in KMeansOutcomes(n_colors) :
            \E r \in {extract_dominant_colors(Self, n_colors, km)} :
                Call("extract_dominant_colors", r)

GenerateColorPalette ==
    \E km \in Reached(dominant_colors = <<>>) :
        \E r \in {generate_color_palette(Self, km)} :
            Call("generate_color_palette", r)

GenerateScssVariables ==
    \E km \in Reached(color_palette = <<>> /\ dominant_colors = <<>>) :
        \E r \in {generate_scss_variables(Self, km)} :
            Call("generate_scss_variables", r)

AnalyzeContrast ==
    \E km \in Reached(color_palette = <<>> /\ dominant_colors = <<>>) :
        \E r \in {analyze_contrast(Self, km)} :
            Call("analyze_contrast", r)

Next ==
    \/ ExtractDominantColors
    \/ GenerateColorPalette
    \/ GenerateScssVariables
    \/ AnalyzeContrast

Spec == Init /\ [][Next]_vars

(***************************************************************************)
(* calculate_contrast on its own: two hex colours are chosen, then the     *)
(* function is applied to them.                                            *)
(***************************************************************************)
ChannelLevels == {0, 128, 255}

HexColors == { _rgb_to_hex(<<r, g, b>>) : r \in ChannelLevels, g \in ChannelLevels,
                                         b \in ChannelLevels }

InitContrast ==
    /\ dominant_colors = <<>>
    /\ color_palette = <<>>
    /\ ret = [op |-> "__init__", outcome |-> "returned", error |-> "", value |-> NoValue,
              kmeans |-> "not called", colors_with_counts |-> <<>>]
    /\ probe \in HexColors \X HexColors

CalculateContrast ==
    /\ ret.op = "__init__"
    /\ ret' = [op |-> "calculate_contrast", outcome |-> "returned", error |-> "",
               value |-> calculate_contrast(probe[1], probe[2]),
               kmeans |-> "not called", colors_with_counts |-> <<>>]
    /\ UNCHANGED <<dominant_colors, color_palette, probe>>

NextContrast == CalculateContrast

SpecContrast == InitContrast /\ [][NextContrast]_vars

(***************************************************************************)
(* Properties.                                                             *)
(***************************************************************************)
Returned(op) == ret.op = op /\ ret.outcome = "returned"

KeySet(d) == { d[k][1] : k \in 1..Len(d) }

TextNames == {"texto-claro", "texto-escuro"}
BackgroundRoles == {"primary", "secondary", "primary-light", "primary-dark"}
RequiredRoles == {"primary", "primary-dark", "primary-light", "secondary", "accent",
                  "gray-light", "gray-medium", "gray-dark"}
LowerHexDigits == {"0", "1", "2", "3", "4", "5", "6", "7", "8", "9",
                   "a", "b", "c", "d", "e", "f"}
ExtractionErrors == {"InvalidParameterError", "MemoryError"}

LacksRole(palette) == \E k \in 1..Len(AnalyzedRoles) : ~DictHas(palette, AnalyzedRoles[k])

\* C1: the report of analyze_contrast has exactly 8 entries, one for each pair of
\* a text role and a background role, each keyed by the label naming its own
\* background role, also when two background roles carry the same hex value.
C1_EightEntries ==
    Returned("analyze_contrast") =>
        /\ Len(ret.value) = 8
        /\ KeySet(ret.value) =
               { t \o " sobre " \o b : t \in TextNames, b \in BackgroundRoles }

\* C2 as claimed: analyze_contrast called on a palette that lacks a required role
\* (the empty palette included) fails with IncompletePaletteError and returns no report.
\* Stated for the calls in which KMeans itself does not raise, so that a violation is
\* a report returned and not merely an error of another name.
C2_IncompletePaletteFails ==
    [][(/\ ret'.op = "analyze_contrast"
        /\ LacksRole(color_palette)
        /\ ret'.kmeans # "raised") =>
          /\ ret'.outcome = "raised"
          /\ ret'.error = "IncompletePaletteError"
          /\ ret'.value = NoValue]_vars

\* C2 amended: every palette the adapter's methods store is empty or holds all six
\* analysed roles, and analyze_contrast never fails with IncompletePaletteError: on
\* the empty palette it generates the palette first and returns the report for it,
\* returning no report only when the extraction it needed raised, whose error
\* propagates while the stored fields stay as they were.
C2_AnalyzeGeneratesWhenEmpty ==
    /\ [](color_palette # <<>> => ~LacksRole(color_palette))
    /\ [][(ret'.op = "analyze_contrast" /\ LacksRole(color_palette)) =>
             /\ color_palette = <<>>
             /\ ret'.error # "IncompletePaletteError"
             /\ IF ret'.kmeans = "raised"
                THEN /\ ret'.outcome = "raised"
                     /\ ret'.error \in ExtractionErrors
                     /\ ret'.value = NoValue
                     /\ UNCHANGED <<dominant_colors, color_palette>>
                ELSE /\ ret'.outcome = "returned"
                     /\ dominant_colors' # <<>>
                     /\ ~LacksRole(color_palette')
                     /\ DictGet(color_palette', "primary") = _rgb_to_hex(dominant_colors'[1])
                     /\ Len(ret'.value) >= 1
                     /\ ret'.value = ContrastResults(color_palette')]_vars

\* C2 witness: analyze_contrast was called on an adapter with no palette and no
\* dominant colours, extracted and generated by itself, and returned a report.
C2_Witness ==
    /\ Returned("analyze_contrast")
    /\ ret.kmeans = "fitted"
    /\ Len(ret.value) >= 1

\* C3 as claimed: generate_color_palette called with an empty dominant list fails
\* with EmptyDominantListError, produces no palette and does not extract by itself.
\* Stated for the calls in which KMeans itself does not raise, so that a violation is
\* a palette returned and not merely an error of another name.
C3_EmptyDominantFails ==
    [][(/\ ret'.op = "generate_color_palette"
        /\ dominant_colors = <<>>
        /\ ret'.kmeans # "raised") =>
          /\ ret'.outcome = "raised"
          /\ ret'.error = "EmptyDominantListError"
          /\ ret'.kmeans = "not called"
          /\ ret'.value = NoValue]_vars

\* C3 amended: generate_color_palette never fails with EmptyDominantListError; called
\* with an empty dominant list it runs extract_dominant_colors with the default
\* n_colors = 5, stores the (non-empty, at most 5 long) result and returns the
\* palette built from it; it produces no palette only when that extraction raises,
\* and then the extraction's error propagates and the stored fields are unchanged.
C3_GenerateExtractsWhenEmpty ==
    [][(ret'.op = "generate_color_palette" /\ dominant_colors = <<>>) =>
          /\ ret'.kmeans # "not called"
          /\ ret'.error # "EmptyDominantListError"
          /\ IF ret'.kmeans = "raised"
             THEN /\ ret'.outcome = "raised"
                  /\ ret'.error \in ExtractionErrors
                  /\ ret'.value = NoValue
                  /\ UNCHANGED <<dominant_colors, color_palette>>
             ELSE /\ ret'.outcome = "returned"
                  /\ Len(dominant_colors') \in 1..DefaultNColors
                  /\ color_palette' # <<>>
                  /\ ret'.value = color_palette'
                  /\ DictGet(color_palette', "primary") =
                         _rgb_to_hex(dominant_colors'[1])]_vars

\* C3 witness: generate_color_palette ran the extraction itself and returned a palette.
C3_Witness ==
    /\ Returned("generate_color_palette")
    /\ ret.kmeans = "fitted"
    /\ ret.value # <<>>

\* C4: when the extraction invoked from generate_color_palette (directly, or through
\* generate_scss_variables or analyze_contrast) raises, the error reaches the caller,
\* no palette, SCSS text or report is returned, and dominant_colors and color_palette
\* are left exactly as they were.
C4_ExtractionFailurePropagates ==
    [][(/\ ret'.kmeans = "raised"
        /\ ret'.op \in {"generate_color_palette", "generate_scss_variables",
                        "analyze_contrast"}) =>
          /\ ret'.outcome = "raised"
          /\ ret'.error \in ExtractionErrors
          /\ ret'.value = NoValue
          /\ dominant_colors' = dominant_colors
          /\ color_palette' = color_palette]_vars

\* C4 witness: analyze_contrast ended with the error of the extraction it triggered.
C4_Witness ==
    /\ ret.op = "analyze_contrast"
    /\ ret.kmeans = "raised"
    /\ ret.outcome = "raised"

\* the colour a palette value encodes
DecodeHex(h) ==
    <<ParseHex2(SubSeq(h, 2, 3)), ParseHex2(SubSeq(h, 4, 5)), ParseHex2(SubSeq(h, 6, 7))>>

\* C5: a returned palette holds the 8 required roles, and additional-i (i = 1..3)
\* exactly when the dominant list has more than i entries, with the hex encoding of
\* dominant[i]; no other key (no additional-4) appears, whatever was generated before.
C5_PaletteRoles ==
    Returned("generate_color_palette") =>
        /\ Cardinality(KeySet(ret.value)) = Len(ret.value)
        /\ RequiredRoles \subseteq KeySet(ret.value)
        /\ KeySet(ret.value) \subseteq
               RequiredRoles \cup {"additional-1", "additional-2", "additional-3"}
        /\ \A i \in 1..3 :
               /\ DictHas(ret.value, "additional-" \o ToString(i))
                      <=> Len(dominant_colors) > i
               /\ Len(dominant_colors) > i =>
                      /\ Len(DictGet(ret.value, "additional-" \o ToString(i))) = 7
                      /\ DecodeHex(DictGet(ret.value, "additional-" \o ToString(i)))
                             = dominant_colors[i + 1]

\* C5 witness: a palette was returned for a dominant list of more than 4 colours.
C5_Witness ==
    /\ Returned("generate_color_palette")
    /\ Len(dominant_colors) > 4
    /\ DictHas(ret.value, "additional-3")

TextRoleOf(text_name) == IF text_name = "texto-claro" THEN "gray-light" ELSE "gray-dark"

\* C6: every entry of the report is rated from the unrounded ratio (Bom when >= 7,
\* Aceitavel when >= 4.5 and < 7, Insuficiente when < 4.5) and shows that ratio
\* rounded to 2 decimals; the rounding does not change the rating.
C6_RatingFromUnroundedRatio ==
    Returned("analyze_contrast") =>
        \A k \in 1..Len(ret.value) :
            \E t \in TextNames, b \in BackgroundRoles :
                LET lt == get_luminance(DictGet(color_palette, TextRoleOf(t)))
                    lb == get_luminance(DictGet(color_palette, b))
                    hi == (IF lt > lb THEN lt ELSE lb) + 500000
                    lo == (IF lt > lb THEN lb ELSE lt) + 500000
                    q == (100 * hi) \div lo
                    r == (100 * hi) % lo
                    e == ret.value[k][2]
                IN  /\ ret.value[k][1] = t \o " sobre " \o b
                    /\ e.contraste \in {q, q + 1}
                    /\ (e.contraste = q + 1) => 2 * r >= lo
                    /\ (e.contraste = q) => 2 * r <= lo
                    /\ (e.status = "Bom") <=> (hi >= 7 * lo)
                    /\ (e.status = "Aceitável") <=> (10 * hi >= 45 * lo /\ hi < 7 * lo)
                    /\ (e.status = "Insuficiente") <=> (10 * hi < 45 * lo)

\* C6 witness: an entry whose ratio is below 4.5, is shown as 4.5 and is rated
\* Insuficiente.
C6_Witness ==
    /\ Returned("analyze_contrast")
    /\ \E k \in 1..Len(ret.value) :
           /\ ret.value[k][2].contraste = 450
           /\ ret.value[k][2].status = "Insuficiente"

\* C7: calculate_contrast(A, B) is (max(L_A, L_B) + 0.05) / (min(L_A, L_B) + 0.05),
\* hence at least 1, equal to calculate_contrast(B, A), and exactly 1 when A = B.
C7_ContrastSymmetricAtLeastOne ==
    Returned("calculate_contrast") =>
        LET la == get_luminance(probe[1])
            lb == get_luminance(probe[2])
        IN  /\ ret.value.num = (IF la > lb THEN la ELSE lb) + 500000
            /\ ret.value.den = (IF la > lb THEN lb ELSE la) + 500000
            /\ ret.value.num >= ret.value.den
            /\ ret.value = calculate_contrast(probe[2], probe[1])
            /\ probe[1] = probe[2] => ret.value.num = ret.value.den

\* C7 witness: the contrast of a darker first colour against a lighter second one.
C7_Witness ==
    /\ Returned("calculate_contrast")
    /\ get_luminance(probe[1]) < get_luminance(probe[2])
    /\ ret.value.num > ret.value.den

\* C8: the returned list follows the clusters in non-increasing count, clusters of
\* equal count in cluster-index order, every zipped cluster once, each colour the
\* truncated centroid; the first entry is a cluster of maximal count.
C8_SortedByCountStable ==
    Returned("extract_dominant_colors") =>
        LET c == ret.colors_with_counts
        IN  /\ dominant_colors = ret.value
            /\ Len(ret.value) = Len(c)
            /\ { c[i].index : i \in 1..Len(c) } = 1..Len(c)
            /\ \A i \in 1..Len(c) :
                   /\ ret.value[i] = [k \in 1..3 |-> c[i].color[k] \div 10]
                   /\ c[1].count >= c[i].count
            /\ \A i \in 1..Len(c), j \in 1..Len(c) :
                   i < j => /\ c[i].count >= c[j].count
                            /\ c[i].count = c[j].count => c[i].index < c[j].index

\* C8 witness: an extraction returned two clusters of equal count.
C8_Witness ==
    /\ Returned("extract_dominant_colors")
    /\ Len(ret.colors_with_counts) >= 2
    /\ ret.colors_with_counts[1].count = ret.colors_with_counts[2].count

\* C9: every value of a returned palette is "#" followed by exactly 6 lowercase
\* hexadecimal digits, each pair of digits a channel in 0..255.
C9_HexValues ==
    Returned("generate_color_palette") =>
        \A k \in 1..Len(ret.value) :
            LET h == ret.value[k][2]
            IN  /\ Len(h) = 7
                /\ h[1] = "#"
                /\ \A j \in 2..7 : h[j] \in LowerHexDigits
                /\ \A j \in 1..3 : DecodeHex(h)[j] \in 0..255

\* C9 witness: a palette whose primary is at full brightness, so that the clamp of
\* the brightness adjustment acted (primary-light equals primary).
C9_Witness ==
    /\ Returned("generate_color_palette")
    /\ DictGet(ret.value, "primary") = <<"#", "0", "0", "f", "f", "0", "0">>
    /\ DictGet(ret.value, "primary-light") = DictGet(ret.value, "primary")

\* C10: whenever the stored palette is non-empty it is the palette that generation
\* derives from the stored dominant colours.
C10_PaletteFollowsDominant ==
    color_palette # <<>> => color_palette = PaletteFrom(dominant_colors)

====
